---- MODULE Spec2Model ----
(***************************************************************************)
(* Model of the trade pipeline of Real_time_tracking_Kafka:                *)
(*   - consumers/coinbaseConsumer.py : the Kafka poll loop                  *)
(*   - 6DashboardOrNotifier/dashboard.py : fetch_trades and update_chart    *)
(***************************************************************************)
EXTENDS Integers, Sequences, FiniteSets, TLC

(***************************************************************************)
(* Bounds of the model.                                                    *)
(***************************************************************************)
MaxBus == 3
MaxRestarts == 1
MaxRows == 2
MaxLimit == 2
MaxTicks == 1
MaxWindowLen == 12

(***************************************************************************)
(* Program constants.                                                      *)
(***************************************************************************)
\* 'auto.offset.reset': 'earliest' : the offset a group without a committed
\* offset starts from; NoOffset marks "the group has committed nothing".
NoOffset == -1
EarliestOffset == 0
\* fetch_trades(symbol, limit=200) and the slider's value=200
DEFAULT_LIMIT == 200
\* len(df) >= 10  and  rolling(window=10)
MA_MIN_LEN == 10
MA_WINDOW == 10

VARIABLES
    bus,        \* the topic 'crypto': the sequence of messages the broker holds
    committed,  \* the offset committed for group 'my-simple-group' (at the broker)
    pc,         \* the consumer script's position
    position,   \* the consumer's stored offset: the next offset poll will deliver
    msg,        \* the message poll returned last (the variable msg of the loop)
    emitted,    \* stdout of the consumer: one entry per "Received message" line
    exitCause,  \* why the script left the loop
    restarts,   \* how many times the script was started again
    store,      \* the table market.trades, rows in heap order
    vpc,        \* per viewer: position of the update_chart callback in flight
    sel,        \* per viewer: the callback's inputs (selected_symbol, n_points, n_intervals)
    conn,       \* per viewer: whether the connection opened by fetch_trades is open
    df,         \* per viewer: the DataFrame of the callback in flight
    fig,        \* per viewer: the figure the browser shows (last successful response)
    resp        \* per viewer: outcome of the last callback

consumerVars == <<bus, committed, pc, position, msg, emitted, exitCause, restarts>>
dashVars == <<store, vpc, sel, conn, df, fig, resp>>
vars == <<bus, committed, pc, position, msg, emitted, exitCause, restarts,
          store, vpc, sel, conn, df, fig, resp>>

(***************************************************************************)
(* Values.                                                                 *)
(***************************************************************************)
Symbols == {"BTCUSDT", "ETHUSDT"}
Times == {1, 2}
Prices == {1, 2}
Quantities == {1}

\* A trade as the producer serialises it into a message value.
Trade(id, s, t, p) ==
    [trade_id |-> id, symbol |-> s, trade_time |-> t, price |-> p, quantity |-> 1]

\* Message payloads (bytes).  kind "utf8" is bytes that decode to text, "bad"
\* is bytes that are no valid UTF-8, "none" is an absent key or value.
Utf8(body) == [kind |-> "utf8", body |-> body]
BadBytes == [kind |-> "bad", body |-> [raw |-> "garbage"]]
Absent == [kind |-> "none", body |-> [raw |-> "none"]]

TradeA == Trade(1, "BTCUSDT", 1, 1)
TradeB == Trade(2, "BTCUSDT", 2, 2)
\* A payload that is text but carries no price field.
NoPriceBody == [trade_id |-> 3, symbol |-> "ETHUSDT", trade_time |-> 1, quantity |-> 1]

Messages ==
    { [key |-> Absent, value |-> Utf8(TradeA), error |-> "none"],
      [key |-> Utf8([text |-> "BTCUSDT"]), value |-> Utf8(TradeB), error |-> "none"],
      [key |-> Absent, value |-> Utf8(NoPriceBody), error |-> "none"],
      [key |-> Absent, value |-> Absent, error |-> "none"],
      [key |-> Absent, value |-> BadBytes, error |-> "none"],
      [key |-> BadBytes, value |-> Utf8(TradeA), error |-> "none"] }

\* msg before the first poll, and the message object poll returns for a bus error.
NoMsg == [key |-> Absent, value |-> Absent, error |-> "unset"]
NoneMsg == [key |-> Absent, value |-> Absent, error |-> "timeout"]
ErrorMsg == [key |-> Absent, value |-> Absent, error |-> "bus"]

\* bytes.decode(): the text of valid UTF-8, UnicodeDecodeError otherwise;
\* None has no attribute decode.
Decode(b) ==
    CASE b.kind = "utf8" -> [ok |-> TRUE, text |-> b.body, exc |-> "none"]
      [] b.kind = "bad"  -> [ok |-> FALSE, text |-> b.body, exc |-> "UnicodeDecodeError"]
      [] b.kind = "none" -> [ok |-> FALSE, text |-> b.body, exc |-> "AttributeError"]

\* msg.key().decode() if msg.key() else None
KeyText(m) ==
    IF m.key.kind = "none"
    THEN [ok |-> TRUE, text |-> [text |-> "None"], exc |-> "none"]
    ELSE Decode(m.key)

\* The f-string of the print call: both parts are evaluated, the key first.
FormatLine(m) ==
    LET k == KeyText(m)
        v == Decode(m.value)
    IN  IF ~k.ok THEN [ok |-> FALSE, exc |-> k.exc, key |-> k.text, value |-> v.text]
        ELSE IF ~v.ok THEN [ok |-> FALSE, exc |-> v.exc, key |-> k.text, value |-> v.text]
        ELSE [ok |-> TRUE, exc |-> "none", key |-> k.text, value |-> v.text]

(***************************************************************************)
(* The consumer script.                                                    *)
(***************************************************************************)
\* Where a (re)started member of the group begins: the committed offset, or
\* the earliest offset when the group has committed none.
StartOffset(c) == IF c = NoOffset THEN EarliestOffset ELSE c

\* conf sets neither enable.auto.commit nor enable.auto.offset.store, so the
\* client's defaults apply: the offset of a message is stored when poll hands
\* the message to the script, and stored offsets are committed in the
\* background and by close().
CommitStored(c, pos) == IF pos > StartOffset(c) THEN pos ELSE c

\* The producer side of the topic (not part of the script).
Produce ==
    /\ Len(bus) < MaxBus
    /\ \E m \in Messages : bus' = Append(bus, m)
    /\ UNCHANGED <<committed, pc, position, msg, emitted, exitCause, restarts>>
    /\ UNCHANGED dashVars

\* Consumer(conf); consumer.subscribe(['crypto']); the banner print.
Start ==
    /\ pc = "start"
    /\ pc' = "poll"
    /\ position' = StartOffset(committed)
    /\ UNCHANGED <<bus, committed, msg, emitted, exitCause, restarts>>
    /\ UNCHANGED dashVars

\* The loop leaving on an empty poll (break in place of continue).
PollNoneBreaks ==
    /\ pc = "poll"
    /\ msg' = NoneMsg
    /\ pc' = "finally"
    /\ UNCHANGED <<bus, committed, position, emitted, exitCause, restarts>>
    /\ UNCHANGED dashVars

\* msg = consumer.poll(1.0) returns None: continue.
PollNone ==
    /\ pc = "poll"
    /\ msg' = NoneMsg
    /\ UNCHANGED <<bus, committed, pc, position, emitted, exitCause, restarts>>
    /\ UNCHANGED dashVars

\* poll returns the next message of the topic; its offset is stored.
PollMsg ==
    /\ pc = "poll"
    /\ position < Len(bus)
    /\ msg' = bus[position + 1]
    /\ position' = position + 1
    /\ pc' = "print"
    /\ UNCHANGED <<bus, committed, emitted, exitCause, restarts>>
    /\ UNCHANGED dashVars

\* poll returns a message whose error() is set: raise KafkaException, which
\* no except clause catches; control goes to the finally clause.
PollError ==
    /\ pc = "poll"
    /\ msg' = ErrorMsg
    /\ exitCause' = "KafkaException"
    /\ pc' = "finally"
    /\ UNCHANGED <<bus, committed, position, emitted, restarts>>
    /\ UNCHANGED dashVars

\* print(f"Received message: key=..., value=...") with both decodes succeeding.
PrintMsg ==
    /\ pc = "print"
    /\ FormatLine(msg).ok
    /\ emitted' = Append(emitted, [run |-> restarts, offset |-> position - 1,
                                   key |-> FormatLine(msg).key,
                                   value |-> FormatLine(msg).value])
    /\ pc' = "poll"
    /\ UNCHANGED <<bus, committed, position, msg, exitCause, restarts>>
    /\ UNCHANGED dashVars

\* A decode inside the f-string raises: nothing is printed, the exception is
\* not a KeyboardInterrupt, control goes to the finally clause.
PrintRaise ==
    /\ pc = "print"
    /\ ~FormatLine(msg).ok
    /\ exitCause' = FormatLine(msg).exc
    /\ pc' = "finally"
    /\ UNCHANGED <<bus, committed, position, msg, emitted, restarts>>
    /\ UNCHANGED dashVars

\* Ctrl+C inside the try block: except KeyboardInterrupt, then finally.
Interrupt ==
    /\ pc \in {"poll", "print"}
    /\ exitCause' = "KeyboardInterrupt"
    /\ pc' = "finally"
    /\ UNCHANGED <<bus, committed, position, msg, emitted, restarts>>
    /\ UNCHANGED dashVars

\* The client's background commit of the stored offset.
AutoCommit ==
    /\ pc \in {"poll", "print"}
    /\ committed # CommitStored(committed, position)
    /\ committed' = CommitStored(committed, position)
    /\ UNCHANGED <<bus, pc, position, msg, emitted, exitCause, restarts>>
    /\ UNCHANGED dashVars

\* finally: consumer.close(), which commits the stored offset and leaves the group.
Close ==
    /\ pc = "finally"
    /\ committed' = CommitStored(committed, position)
    /\ pc' = "exited"
    /\ UNCHANGED <<bus, position, msg, emitted, exitCause, restarts>>
    /\ UNCHANGED dashVars

\* The process is killed: no clause of the script runs.
Kill ==
    /\ pc \in {"poll", "print", "finally"}
    /\ exitCause' = "killed"
    /\ pc' = "exited"
    /\ UNCHANGED <<bus, committed, position, msg, emitted, restarts>>
    /\ UNCHANGED dashVars

\* The script is run again.
Restart ==
    /\ pc = "exited"
    /\ restarts < MaxRestarts
    /\ restarts' = restarts + 1
    /\ pc' = "start"
    /\ msg' = NoMsg
    /\ exitCause' = "none"
    /\ UNCHANGED <<bus, committed, position, emitted>>
    /\ UNCHANGED dashVars

NextConsumer ==
    \/ Produce
    \/ Start
    \/ PollNone
    \/ PollMsg
    \/ PollError
    \/ PrintMsg
    \/ PrintRaise
    \/ Interrupt
    \/ AutoCommit
    \/ Close
    \/ Kill
    \/ Restart

(***************************************************************************)
(* The table market.trades and the query of fetch_trades.                  *)
(***************************************************************************)
\* A row of market.trades.  ctid is the row's place in the table; the query
\* does not select it, it is kept to tell apart rows with equal columns.
Rows == [symbol : Symbols, trade_time : Times, price : Prices, quantity : Quantities]

\* Whatever fills market.trades (no writer is part of these sources).
DbInsert ==
    /\ Len(store) < MaxRows
    /\ \E r \in Rows : store' = Append(store, r)
    /\ UNCHANGED <<vpc, sel, conn, df, fig, resp>>
    /\ UNCHANGED consumerVars

Perms(n) == {p \in [1..n -> 1..n] : \A i, j \in 1..n : p[i] = p[j] => i = j}
Permuted(s, p) == [i \in 1..Len(s) |-> s[p[i]]]
\* LIMIT that stops one row early.
TakeOneLess(s, n) == IF n - 1 >= Len(s) THEN s ELSE SubSeq(s, 1, n - 1)
Take(s, n) == IF n >= Len(s) THEN s ELSE SubSeq(s, 1, n)

\* SELECT trade_time, price, quantity FROM market.trades WHERE symbol = %s
RECURSIVE WhereSymbol(_, _, _)
WhereSymbol(st, symbol, i) ==
    IF i > Len(st) THEN <<>>
    ELSE IF st[i].symbol = symbol
         THEN <<[ctid |-> i, trade_time |-> st[i].trade_time, price |-> st[i].price,
                 quantity |-> st[i].quantity]>> \o WhereSymbol(st, symbol, i + 1)
         ELSE WhereSymbol(st, symbol, i + 1)

\* ORDER BY trade_time DESC: r goes behind every row that is not older.
RECURSIVE InsertDesc(_, _)
InsertDesc(r, s) ==
    IF s = <<>> THEN <<r>>
    ELSE IF Head(s).trade_time >= r.trade_time
         THEN <<Head(s)>> \o InsertDesc(r, Tail(s))
         ELSE <<r>> \o s

\* The query without its ORDER BY clause.
OrderByNothing(s) == s

RECURSIVE OrderByTimeDesc(_)
OrderByTimeDesc(s) ==
    IF s = <<>> THEN <<>>
    ELSE InsertDesc(s[Len(s)], OrderByTimeDesc(SubSeq(s, 1, Len(s) - 1)))

\* The whole query.  SQL leaves the order of rows with equal trade_time
\* open: scan is the order in which the executor happens to meet the rows.
Query(st, symbol, limit, scan) ==
    Take(OrderByTimeDesc(Permuted(WhereSymbol(st, symbol, 1), scan)), limit)

\* df.sort_values("trade_time"): r goes behind every row that is not later.
RECURSIVE InsertAsc(_, _)
InsertAsc(r, s) ==
    IF s = <<>> THEN <<r>>
    ELSE IF Head(s).trade_time <= r.trade_time
         THEN <<Head(s)>> \o InsertAsc(r, Tail(s))
         ELSE <<r>> \o s

RECURSIVE SortAsc(_)
SortAsc(s) ==
    IF s = <<>> THEN <<>>
    ELSE InsertAsc(s[Len(s)], SortAsc(SubSeq(s, 1, Len(s) - 1)))

\* fetch_trades without its sort_values call.
SortValuesSkipped(d, tie) == d

\* sort_values uses quicksort, which is not stable: ties come out in an
\* order the caller does not control (tie).
SortValues(d, tie) == SortAsc(Permuted(d, tie))

(***************************************************************************)
(* The figure of update_chart.                                             *)
(***************************************************************************)
NaN == [nan |-> TRUE, num |-> 0, den |-> 1]
Mean(sum, n) == [nan |-> FALSE, num |-> sum, den |-> n]

\* Series.rolling(window=w).mean(): a running sum that adds the entering
\* value and removes the leaving one; min_periods defaults to the window, so
\* the first w-1 entries are NaN.  The mean is kept as the exact fraction
\* num/den.
RECURSIVE RollingFrom(_, _, _, _, _)
RollingFrom(y, w, i, acc, out) ==
    IF i > Len(y) THEN out
    ELSE LET added == acc + y[i]
             sum == IF i > w THEN added - y[i - w] ELSE added
             nobs == IF i > w THEN w ELSE i
         IN  RollingFrom(y, w, i + 1, sum,
                         Append(out, IF nobs >= w THEN Mean(sum, nobs) ELSE NaN))

\* A running sum that never removes the value leaving the window.
RECURSIVE RollingKeepAll(_, _, _, _, _)
RollingKeepAll(y, w, i, acc, out) ==
    IF i > Len(y) THEN out
    ELSE RollingKeepAll(y, w, i + 1, acc + y[i],
                        Append(out, IF i >= w THEN Mean(acc + y[i], w) ELSE NaN))

RollingMeanKeepAll(y, w) == RollingKeepAll(y, w, 1, 0, <<>>)

RollingMean(y, w) == RollingFrom(y, w, 1, 0, <<>>)

Column(d, c) == [i \in 1..Len(d) |-> d[i][c]]

NoFigure == [kind |-> "unset", symbol |-> "none", n |-> 0, traces |-> <<>>]

\* update_chart without its df.empty branch.
FigureNoEmptyBranch(selected_symbol, d) ==
    [kind |-> "last trades", symbol |-> selected_symbol, n |-> Len(d),
     traces |-> <<[name |-> "Price", x |-> Column(d, "trade_time"), y |-> Column(d, "price")]>>]

\* update_chart without its len(df) >= 10 test.
FigureAlwaysTrend(selected_symbol, d) ==
    IF d = <<>>
    THEN [kind |-> "no data found", symbol |-> selected_symbol, n |-> 0, traces |-> <<>>]
    ELSE [kind |-> "last trades", symbol |-> selected_symbol, n |-> Len(d),
          traces |-> <<[name |-> "Price", x |-> Column(d, "trade_time"),
                        y |-> Column(d, "price")],
                       [name |-> "MA(10)", x |-> Column(d, "trade_time"),
                        y |-> RollingMean(Column(d, "price"), MA_WINDOW)]>>]

\* update_chart after fetch_trades returned d.
Figure(selected_symbol, d) ==
    IF d = <<>>
    THEN [kind |-> "no data found", symbol |-> selected_symbol, n |-> 0, traces |-> <<>>]
    ELSE LET price_trace == [name |-> "Price", x |-> Column(d, "trade_time"),
                             y |-> Column(d, "price")]
             ma_trace == [name |-> "MA(10)", x |-> Column(d, "trade_time"),
                          y |-> RollingMean(Column(d, "price"), MA_WINDOW)]
         IN  [kind |-> "last trades", symbol |-> selected_symbol, n |-> Len(d),
              traces |-> IF Len(d) >= MA_MIN_LEN
                         THEN <<price_trace, ma_trace>>
                         ELSE <<price_trace>>]

(***************************************************************************)
(* The update_chart callback, one run per viewer at a time.                *)
(***************************************************************************)
\* Row counts a request can ask for: small ones that cut the table short,
\* and the default, which no table of the model reaches.
Limits == (0..MaxLimit) \cup {DEFAULT_LIMIT}

Called(v, inputs) ==
    /\ vpc[v] = "idle"
    /\ sel' = [sel EXCEPT ![v] = inputs]
    /\ vpc' = [vpc EXCEPT ![v] = "called"]
    /\ UNCHANGED <<store, conn, df, fig, resp>>
    /\ UNCHANGED consumerVars

\* dcc.Interval fires: n_intervals changes.
Tick(v) ==
    /\ sel[v].n_intervals < MaxTicks
    /\ Called(v, [sel[v] EXCEPT !.n_intervals = @ + 1])

\* The dropdown changes.
SelectSymbol(v) ==
    \E s \in Symbols \ {sel[v].symbol} : Called(v, [sel[v] EXCEPT !.symbol = s])

\* The slider changes.
MoveSlider(v) ==
    \E n \in Limits \ {sel[v].n_points} : Called(v, [sel[v] EXCEPT !.n_points = n])

\* conn = psycopg2.connect(DSN)
Connect(v) ==
    /\ vpc[v] = "called"
    /\ conn' = [conn EXCEPT ![v] = TRUE]
    /\ vpc' = [vpc EXCEPT ![v] = "connected"]
    /\ UNCHANGED <<store, sel, df, fig, resp>>
    /\ UNCHANGED consumerVars

\* connect raises OperationalError (the database is unreachable): it leaves
\* fetch_trades and update_chart, the browser keeps the figure it has.
ConnectFail(v) ==
    /\ vpc[v] = "called"
    /\ resp' = [resp EXCEPT ![v] = "OperationalError"]
    /\ vpc' = [vpc EXCEPT ![v] = "idle"]
    /\ UNCHANGED <<store, sel, conn, df, fig>>
    /\ UNCHANGED consumerVars

\* fetch_trades keeping its frame in a module-level variable that every
\* callback in flight shares.
ReadSqlSharedFrame(v) ==
    /\ vpc[v] = "connected"
    /\ \E scan \in Perms(Len(WhereSymbol(store, sel[v].symbol, 1))) :
          df' = [w \in DOMAIN df |->
                    Query(store, sel[v].symbol, sel[v].n_points, scan)]
    /\ vpc' = [vpc EXCEPT ![v] = "read"]
    /\ UNCHANGED <<store, sel, conn, fig, resp>>
    /\ UNCHANGED consumerVars

\* A query that also deletes the rows it did not return.
ReadSqlTrimming(v) ==
    /\ vpc[v] = "connected"
    /\ \E scan \in Perms(Len(WhereSymbol(store, sel[v].symbol, 1))) :
          df' = [df EXCEPT ![v] = Query(store, sel[v].symbol, sel[v].n_points, scan)]
    /\ store' = Take(store, sel[v].n_points)
    /\ vpc' = [vpc EXCEPT ![v] = "read"]
    /\ UNCHANGED <<sel, conn, fig, resp>>
    /\ UNCHANGED consumerVars

\* df = pd.read_sql(query, conn, params=(symbol, limit))
ReadSql(v) ==
    /\ vpc[v] = "connected"
    /\ \E scan \in Perms(Len(WhereSymbol(store, sel[v].symbol, 1))) :
          df' = [df EXCEPT ![v] = Query(store, sel[v].symbol, sel[v].n_points, scan)]
    /\ vpc' = [vpc EXCEPT ![v] = "read"]
    /\ UNCHANGED <<store, sel, conn, fig, resp>>
    /\ UNCHANGED consumerVars

\* read_sql raises (pandas wraps the driver's error in DatabaseError).
ReadSqlFail(v) ==
    /\ vpc[v] = "connected"
    /\ vpc' = [vpc EXCEPT ![v] = "raising"]
    /\ UNCHANGED <<store, sel, conn, df, fig, resp>>
    /\ UNCHANGED consumerVars

\* finally: conn.close(), after a successful read.
CloseConn(v) ==
    /\ vpc[v] = "read"
    /\ conn' = [conn EXCEPT ![v] = FALSE]
    /\ vpc' = [vpc EXCEPT ![v] = "closed"]
    /\ UNCHANGED <<store, sel, df, fig, resp>>
    /\ UNCHANGED consumerVars

\* fetch_trades with conn.close() after read_sql instead of in a finally
\* clause: the exception of read_sql skips it.
RaiseWithoutClose(v) ==
    /\ vpc[v] = "raising"
    /\ resp' = [resp EXCEPT ![v] = "DatabaseError"]
    /\ vpc' = [vpc EXCEPT ![v] = "idle"]
    /\ UNCHANGED <<store, sel, conn, df, fig>>
    /\ UNCHANGED consumerVars

\* finally: conn.close(), with the exception of read_sql pending: it leaves
\* fetch_trades and update_chart.
CloseConnRaise(v) ==
    /\ vpc[v] = "raising"
    /\ conn' = [conn EXCEPT ![v] = FALSE]
    /\ resp' = [resp EXCEPT ![v] = "DatabaseError"]
    /\ vpc' = [vpc EXCEPT ![v] = "idle"]
    /\ UNCHANGED <<store, sel, df, fig>>
    /\ UNCHANGED consumerVars

\* if not df.empty: to_datetime (the column holds timestamps already) and
\* sort_values; return df.
FetchReturn(v) ==
    /\ vpc[v] = "closed"
    /\ \E tie \in Perms(Len(df[v])) :
          df' = [df EXCEPT ![v] = IF df[v] = <<>> THEN df[v] ELSE SortValues(df[v], tie)]
    /\ vpc' = [vpc EXCEPT ![v] = "fetched"]
    /\ UNCHANGED <<store, sel, conn, fig, resp>>
    /\ UNCHANGED consumerVars

\* The rest of update_chart: the figure is returned to the browser, the
\* local df is dropped.
Render(v) ==
    /\ vpc[v] = "fetched"
    /\ fig' = [fig EXCEPT ![v] = Figure(sel[v].symbol, df[v])]
    /\ resp' = [resp EXCEPT ![v] = "ok"]
    /\ df' = [df EXCEPT ![v] = <<>>]
    /\ vpc' = [vpc EXCEPT ![v] = "idle"]
    /\ UNCHANGED <<store, sel, conn>>
    /\ UNCHANGED consumerVars

NextDash ==
    \/ DbInsert
    \/ \E v \in DOMAIN vpc : Tick(v)
    \/ \E v \in DOMAIN vpc : SelectSymbol(v)
    \/ \E v \in DOMAIN vpc : MoveSlider(v)
    \/ \E v \in DOMAIN vpc : Connect(v)
    \/ \E v \in DOMAIN vpc : ConnectFail(v)
    \/ \E v \in DOMAIN vpc : ReadSql(v)
    \/ \E v \in DOMAIN vpc : ReadSqlFail(v)
    \/ \E v \in DOMAIN vpc : CloseConn(v)
    \/ \E v \in DOMAIN vpc : CloseConnRaise(v)
    \/ \E v \in DOMAIN vpc : FetchReturn(v)
    \/ \E v \in DOMAIN vpc : Render(v)

(***************************************************************************)
(* Specifications.                                                         *)
(***************************************************************************)
InitConsumer ==
    /\ bus = <<>>
    /\ committed = NoOffset
    /\ pc = "start"
    /\ position = EarliestOffset
    /\ msg = NoMsg
    /\ emitted = <<>>
    /\ exitCause = "none"
    /\ restarts = 0

\* The page is loaded: Dash calls update_chart with the layout's values.
InitInputs == [symbol |-> "BTCUSDT", n_points |-> DEFAULT_LIMIT, n_intervals |-> 0]

InitDash(V) ==
    /\ store = <<>>
    /\ vpc = [v \in V |-> "called"]
    /\ sel = [v \in V |-> InitInputs]
    /\ conn = [v \in V |-> FALSE]
    /\ df = [v \in V |-> <<>>]
    /\ fig = [v \in V |-> NoFigure]
    /\ resp = [v \in V |-> "none"]

Init == InitConsumer /\ InitDash({"v1"})

Next == NextConsumer \/ NextDash

Spec == Init /\ [][Next]_vars

\* The consumer script with its topic.
SpecConsumer == Init /\ [][NextConsumer]_vars

\* The dashboard with its table.
SpecDash == Init /\ [][NextDash]_vars

\* update_chart handed windows of every length up to MaxWindowLen: the table
\* holds n trades of the default symbol, one per instant, and fetch_trades
\* has just returned them all.
WindowRow(i, p) == [ctid |-> i, trade_time |-> i, price |-> p, quantity |-> 1]
TableRow(i, p) == [symbol |-> InitInputs.symbol, trade_time |-> i, price |-> p, quantity |-> 1]

InitTrend ==
    /\ InitConsumer
    /\ \E n \in 0..MaxWindowLen : \E ps \in [1..n -> Prices] :
          /\ store = [i \in 1..n |-> TableRow(i, ps[i])]
          /\ df = [v \in {"v1"} |-> [i \in 1..n |-> WindowRow(i, ps[i])]]
    /\ vpc = [v \in {"v1"} |-> "fetched"]
    /\ sel = [v \in {"v1"} |-> InitInputs]
    /\ conn = [v \in {"v1"} |-> FALSE]
    /\ fig = [v \in {"v1"} |-> NoFigure]
    /\ resp = [v \in {"v1"} |-> "none"]

NextTrend == \E v \in DOMAIN vpc : Render(v)

SpecTrend == InitTrend /\ [][NextTrend]_vars

\* Two browser sessions on a table that does not change: every table of up
\* to MaxRows rows, both pages just loaded, every query succeeding.
RECURSIVE Tables(_)
Tables(n) ==
    IF n = 0 THEN {<<>>}
    ELSE Tables(n - 1) \cup
         {Append(t, r) : t \in {u \in Tables(n - 1) : Len(u) = n - 1}, r \in Rows}

InitViewers ==
    /\ InitConsumer
    /\ store \in Tables(MaxRows)
    /\ vpc = [v \in {"v1", "v2"} |-> "called"]
    /\ sel = [v \in {"v1", "v2"} |-> InitInputs]
    /\ conn = [v \in {"v1", "v2"} |-> FALSE]
    /\ df = [v \in {"v1", "v2"} |-> <<>>]
    /\ fig = [v \in {"v1", "v2"} |-> NoFigure]
    /\ resp = [v \in {"v1", "v2"} |-> "none"]

NextViewers ==
    \/ \E v \in DOMAIN vpc : Tick(v)
    \/ \E v \in DOMAIN vpc : SelectSymbol(v)
    \/ \E v \in DOMAIN vpc : MoveSlider(v)
    \/ \E v \in DOMAIN vpc : Connect(v)
    \/ \E v \in DOMAIN vpc : ReadSql(v)
    \/ \E v \in DOMAIN vpc : CloseConn(v)
    \/ \E v \in DOMAIN vpc : FetchReturn(v)
    \/ \E v \in DOMAIN vpc : Render(v)

SpecViewers == InitViewers /\ [][NextViewers]_vars

(***************************************************************************)
(* Properties of the consumer.                                             *)
(***************************************************************************)
\* A message whose value decodes to a trade with every field present.
IsTrade(m) == m.value.kind = "utf8" /\ "price" \in DOMAIN m.value.body
RowOf(t) == [symbol |-> t.symbol, trade_time |-> t.trade_time, price |-> t.price,
             quantity |-> t.quantity]
StoredCount(t) == Cardinality({i \in DOMAIN store : store[i] = RowOf(t)})

\* C1: the committed offset never lies past a trade message that is not in
\* the Trade Store.
C1_CursorNeverPastUnstored ==
    \A i \in 1..Len(bus) :
        (i <= committed /\ IsTrade(bus[i])) => StoredCount(bus[i].value.body) >= 1

\* C2: once a restarted consumer has caught up with the topic, the store
\* holds exactly one StoredTrade for every trade the topic delivered.
C2_RestartLosesNothing ==
    (restarts > 0 /\ pc = "poll" /\ position = Len(bus))
        => \A i \in 1..Len(bus) :
               IsTrade(bus[i]) => StoredCount(bus[i].value.body) = 1

\* C3: every trade the consumer has ingested, however often it was
\* delivered, has exactly one StoredTrade.
C3_OneStoredTradePerKey ==
    \A e \in 1..Len(emitted) :
        "price" \in DOMAIN emitted[e].value => StoredCount(emitted[e].value) = 1

\* C4: a bus error alone never takes the consumer out of its loop.
C4_BusErrorNeverFatal ==
    exitCause = "KafkaException" => pc \notin {"finally", "exited"}

\* C5: a message that cannot be decoded never takes the consumer out of its
\* loop: no decoding exception ends the script.
C5_DecodeFailureNeverHalts ==
    exitCause \in {"AttributeError", "UnicodeDecodeError"}
        => pc \notin {"finally", "exited"}

(***************************************************************************)
(* Properties of fetch_trades.                                             *)
(***************************************************************************)
\* C6 as stated: the window fetch_trades returns is strictly ascending by
\* trade_time.
C6_StrictlyAscending ==
    \A v \in DOMAIN vpc :
        vpc[v] = "fetched" =>
            \A i \in 1..(Len(df[v]) - 1) : df[v][i].trade_time < df[v][i + 1].trade_time

\* C6 as amended: the window fetch_trades returns is ascending by
\* trade_time, each trade_time at least its predecessor's.
C6_Ascending ==
    \A v \in DOMAIN vpc :
        vpc[v] = "fetched" =>
            \A i \in 1..(Len(df[v]) - 1) : df[v][i].trade_time <= df[v][i + 1].trade_time

\* Two stored trades of the symbol share a trade_time and both are returned.
C6_Witness ==
    \E v \in DOMAIN vpc :
        /\ vpc[v] = "fetched"
        /\ Len(df[v]) = 2
        /\ df[v][1].trade_time = df[v][2].trade_time
        /\ df[v][1].price # df[v][2].price

Min(a, b) == IF a <= b THEN a ELSE b
Ctids(d) == {d[i].ctid : i \in DOMAIN d}
OfSymbol(st, symbol) == {i \in DOMAIN st : st[i].symbol = symbol}

\* d is a most-recent window of the symbol's rows in st.
MostRecent(st, symbol, limit, d) ==
    /\ Ctids(d) \subseteq OfSymbol(st, symbol)
    /\ Cardinality(Ctids(d)) = Len(d)
    /\ \A i \in DOMAIN d :
           /\ d[i].trade_time = st[d[i].ctid].trade_time
           /\ d[i].price = st[d[i].ctid].price
           /\ d[i].quantity = st[d[i].ctid].quantity
    /\ Len(d) = Min(limit, Cardinality(OfSymbol(st, symbol)))
    /\ \A j \in OfSymbol(st, symbol) \ Ctids(d) :
           \A i \in DOMAIN d : st[j].trade_time <= d[i].trade_time

ReadStep(v) == vpc[v] = "connected" /\ vpc'[v] = "read"
ReturnStep(v) == vpc[v] = "closed" /\ vpc'[v] = "fetched"
RenderStep(v) == vpc[v] = "fetched" /\ vpc'[v] = "idle"

\* C7: the query returns only trades of the symbol, min(limit, stored)
\* of them, and none that was left out is later than a returned one; the
\* sort of fetch_trades returns the same rows.
C7_MostRecentWindow ==
    [][\A v \in DOMAIN vpc :
          /\ ReadStep(v) => MostRecent(store, sel[v].symbol, sel[v].n_points, df'[v])
          /\ ReturnStep(v) => (Ctids(df'[v]) = Ctids(df[v]) /\ Len(df'[v]) = Len(df[v])
                               /\ \A i \in DOMAIN df'[v] : \E j \in DOMAIN df[v] : df'[v][i] = df[v][j])
      ]_vars

\* The limit cut the window short: the later of two trades of the symbol is
\* returned, the earlier one, stored before it, is left out.
C7_Witness ==
    \E v \in DOMAIN vpc :
        /\ vpc[v] = "fetched"
        /\ sel[v].n_points = 1
        /\ Len(store) = 2
        /\ store[1].symbol = sel[v].symbol
        /\ store[2].symbol = sel[v].symbol
        /\ store[1].trade_time < store[2].trade_time
        /\ Ctids(df[v]) = {2}

(***************************************************************************)
(* Properties of update_chart.                                             *)
(***************************************************************************)
RECURSIVE SumRange(_, _, _)
SumRange(y, a, b) == IF a > b THEN 0 ELSE y[a] + SumRange(y, a + 1, b)

Max(a, b) == IF a >= b THEN a ELSE b

\* The trend of a figure: the y values of its MA(10) trace, none when the
\* figure has no such trace.
PriceOf(f) == IF Len(f.traces) >= 1 THEN f.traces[1].y ELSE <<>>
TrendOf(f) == IF Len(f.traces) >= 2 THEN f.traces[2].y ELSE <<>>
TrendPoints(f) == {i \in DOMAIN TrendOf(f) : ~TrendOf(f)[i].nan}

\* C8: a window of N prices yields max(0, N-k+1) trend points; index i
\* (from 0) has one iff i >= k-1, and it is the mean of prices i-k+1..i.
C8_WindowCorrectness ==
    \A v \in DOMAIN vpc :
        resp[v] = "ok" =>
            LET y == PriceOf(fig[v])
                N == Len(y)
                k == MA_WINDOW
            IN  /\ Cardinality(TrendPoints(fig[v])) = Max(0, N - k + 1)
                /\ \A i \in 1..N : (i \in TrendPoints(fig[v])) <=> (i - 1 >= k - 1)
                /\ \A i \in TrendPoints(fig[v]) :
                       /\ TrendOf(fig[v])[i].den = k
                       /\ TrendOf(fig[v])[i].num = SumRange(y, i - k + 1, i)

\* A window longer than the moving-average window with prices that differ:
\* the running sum has added and removed values.
C8_Witness ==
    \E v \in DOMAIN vpc :
        /\ resp[v] = "ok"
        /\ Len(PriceOf(fig[v])) = MA_WINDOW + 2
        /\ Cardinality(TrendPoints(fig[v])) = 3
        /\ TrendOf(fig[v])[MA_WINDOW].num # TrendOf(fig[v])[MA_WINDOW + 1].num
        /\ TrendOf(fig[v])[MA_WINDOW + 1].num # TrendOf(fig[v])[MA_WINDOW + 2].num

\* C9: a request whose limit is outside 1..10000 issues no query.
C9_OutOfRangeLimitNeverQueries ==
    \A v \in DOMAIN vpc :
        sel[v].n_points \notin 1..10000 =>
            vpc[v] \notin {"connected", "read", "raising", "closed", "fetched"}

\* C10: with no stored trade of the symbol the query returns an empty
\* window, fetch_trades returns it, and update_chart answers with the
\* "no data found" figure of that symbol, without traces.
C10_EmptySymbol ==
    [][\A v \in DOMAIN vpc :
          /\ (ReadStep(v) /\ OfSymbol(store, sel[v].symbol) = {}) => df'[v] = <<>>
          /\ (ReturnStep(v) /\ df[v] = <<>>) => df'[v] = <<>>
          /\ (RenderStep(v) /\ df[v] = <<>>) =>
                 /\ resp'[v] = "ok"
                 /\ fig'[v].kind = "no data found"
                 /\ fig'[v].symbol = sel[v].symbol
                 /\ fig'[v].traces = <<>>
      ]_vars

\* The table holds trades, none of the requested symbol, and the browser
\* shows the "no data found" figure for it.
C10_Witness ==
    \E v \in DOMAIN vpc :
        /\ vpc[v] = "idle"
        /\ resp[v] = "ok"
        /\ sel[v].n_points > 0
        /\ store # <<>>
        /\ OfSymbol(store, sel[v].symbol) = {}
        /\ fig[v].kind = "no data found"
        /\ fig[v].symbol = sel[v].symbol

(***************************************************************************)
(* Properties of the refresh.                                              *)
(***************************************************************************)
\* C11: every finished refresh yields a figure, a chart or the "no data
\* found" one, and never ends in an error.
C11_RefreshAlwaysShowsSomething ==
    \A v \in DOMAIN vpc :
        vpc[v] = "idle" =>
            /\ resp[v] = "ok"
            /\ fig[v].kind \in {"no data found", "last trades"}

\* Row j is among the limit most recent rows of the symbol however ties
\* are broken: fewer than limit other rows are as late as it or later.
AmongMostRecent(st, symbol, limit, j) ==
    Cardinality({k \in OfSymbol(st, symbol) \ {j} :
                    st[k].trade_time >= st[j].trade_time}) < limit

\* C12: a query reflects every trade in the table when it runs that is
\* among the limit most recent ones of the symbol (the table only grows, so
\* these include every trade stored before the refresh began); the frame
\* keeps them through the sort and the figure plots the whole frame.  A
\* trade stored after the query ran is seen by the next query in the same way.
C12_ReadAfterWrite ==
    [][\A v \in DOMAIN vpc :
          /\ ReadStep(v) =>
                 \A j \in OfSymbol(store, sel[v].symbol) :
                     AmongMostRecent(store, sel[v].symbol, sel[v].n_points, j)
                         => j \in Ctids(df'[v])
          /\ ReturnStep(v) => Ctids(df[v]) \subseteq Ctids(df'[v])
          /\ RenderStep(v) =>
                 /\ fig'[v].n = Len(df[v])
                 /\ PriceOf(fig'[v]) = Column(df[v], "price")
      ]_vars

\* A trade of the symbol was stored after the query of the refresh in
\* flight ran: the frame, cut by no limit, lacks it.
C12_Witness ==
    \E v \in DOMAIN vpc :
        /\ vpc[v] = "fetched"
        /\ sel[v].n_points = DEFAULT_LIMIT
        /\ Cardinality(OfSymbol(store, sel[v].symbol)) = 2
        /\ Ctids(df[v]) = {1}

(***************************************************************************)
(* Further properties of the consumer.                                     *)
(***************************************************************************)
\* C15: when Ctrl+C ends the loop, the message poll delivered last has
\* been emitted before the consumer is closed.
C15_InterruptFinishesMessage ==
    (pc \in {"finally", "exited"} /\ exitCause = "KeyboardInterrupt" /\ msg.error = "none")
        => \E e \in DOMAIN emitted :
               emitted[e].run = restarts /\ emitted[e].offset = position - 1

\* The steps of the dashboard's callbacks.
viewerVars == <<vpc, sel, conn, df, fig, resp>>

\* C16: a connection opened by fetch_trades is open only between connect
\* and the finally clause; it is closed whenever fetch_trades has returned
\* or raised.
C16_ConnectionReleased ==
    \A v \in DOMAIN vpc :
        conn[v] => vpc[v] \in {"connected", "read", "raising"}

\* A query failed and its connection is closed.
C16_Witness ==
    \E v \in DOMAIN vpc :
        vpc[v] = "idle" /\ resp[v] = "DatabaseError" /\ ~conn[v]

\* C17: a poll that returns None changes nothing but msg: nothing is
\* emitted, stored or committed, the position stays and the script stays
\* in its loop.
C17_EmptyPollChangesNothing ==
    [][(pc = "poll" /\ msg # NoneMsg /\ msg' = NoneMsg)
          => UNCHANGED <<bus, committed, pc, position, emitted, exitCause, restarts, store>>
      ]_vars

\* An empty poll after a message was emitted; the script is polling.
C17_Witness ==
    /\ pc = "poll"
    /\ msg = NoneMsg
    /\ emitted # <<>>

\* C18: no step of a refresh changes the table or the consumer's offsets.
C18_RefreshReadOnly ==
    [][viewerVars' # viewerVars
          => (store' = store /\ committed' = committed /\ position' = position)
      ]_vars

\* A refresh has plotted a table of two rows, which are still there.
C18_Witness ==
    \E v \in DOMAIN vpc :
        /\ vpc[v] = "idle"
        /\ resp[v] = "ok"
        /\ fig[v].n = 2
        /\ Len(store) = 2

\* C19: the figure has the MA(10) trace iff the window has at least 10
\* rows; a shorter non-empty window gives the price trace alone, a window
\* of exactly 10 rows a trend with one defined point.
C19_TrendIffTenRows ==
    \A v \in DOMAIN vpc :
        resp[v] = "ok" =>
            /\ (Len(fig[v].traces) = 2) <=> (fig[v].n >= MA_MIN_LEN)
            /\ (fig[v].n >= 1 /\ fig[v].n < MA_MIN_LEN) =>
                   (Len(fig[v].traces) = 1 /\ fig[v].traces[1].name = "Price")
            /\ fig[v].n >= MA_MIN_LEN =>
                   (fig[v].traces[1].name = "Price" /\ fig[v].traces[2].name = "MA(10)")
            /\ fig[v].n = MA_MIN_LEN => Cardinality(TrendPoints(fig[v])) = 1

\* A window of exactly 10 rows was plotted.
C19_Witness ==
    \E v \in DOMAIN vpc :
        /\ resp[v] = "ok"
        /\ fig[v].n = MA_MIN_LEN
        /\ Len(fig[v].traces) = 2
        /\ TrendPoints(fig[v]) = {MA_WINDOW}

\* C20: in a run, the lines emitted follow the order of delivery, and
\* once the script is past the print call the message poll delivered last
\* has been emitted exactly once.
C20_DeliveredEmittedOnceInOrder ==
    /\ \A i, j \in DOMAIN emitted :
           (i < j /\ emitted[i].run = emitted[j].run)
               => emitted[i].offset < emitted[j].offset
    /\ (pc \in {"poll", "finally", "exited"} /\ exitCause # "killed" /\ msg.error = "none")
           => Cardinality({e \in DOMAIN emitted :
                   emitted[e].run = restarts /\ emitted[e].offset = position - 1}) = 1

(***************************************************************************)
(* Properties of refreshes side by side (the table does not change).       *)
(***************************************************************************)
\* Two finished refreshes with the same symbol and limit.
SameRequest(v, w) ==
    /\ vpc[v] = "idle" /\ vpc[w] = "idle"
    /\ resp[v] = "ok" /\ resp[w] = "ok"
    /\ sel[v].symbol = sel[w].symbol
    /\ sel[v].n_points = sel[w].n_points

TimesOf(f) == IF Len(f.traces) >= 1 THEN f.traces[1].x ELSE <<>>

DistinctTimes(st, symbol) ==
    \A i, j \in OfSymbol(st, symbol) : st[i].trade_time = st[j].trade_time => i = j

\* C13: two refreshes with equal table contents, symbol and limit emit equal
\* figures.
C13_EqualRequestsEqualSnapshots ==
    \A v, w \in DOMAIN vpc : SameRequest(v, w) => fig[v] = fig[w]

\* What does hold of two such refreshes, whatever their tick counters,
\* triggers and earlier figures: the same kind, symbol, length and trade_time
\* series, and equal figures when no two stored trades of the symbol share
\* a trade_time.
EqualRequestsSameSnapshotUpToTies ==
    \A v, w \in DOMAIN vpc :
        SameRequest(v, w) =>
            /\ fig[v].kind = fig[w].kind
            /\ fig[v].symbol = fig[w].symbol
            /\ fig[v].symbol = sel[v].symbol
            /\ fig[v].n = fig[w].n
            /\ Len(fig[v].traces) = Len(fig[w].traces)
            /\ TimesOf(fig[v]) = TimesOf(fig[w])
            /\ DistinctTimes(store, sel[v].symbol) => fig[v] = fig[w]

\* The figures update_chart can return for a table, a symbol and a limit
\* when nothing else runs.
AloneFigures(st, symbol, limit) ==
    UNION {{Figure(symbol, SortValues(Query(st, symbol, limit, scan), tie)) :
               tie \in Perms(Len(Query(st, symbol, limit, scan)))} :
           scan \in Perms(Len(WhereSymbol(st, symbol, 1)))}

\* C14: with refreshes interleaved, the frame of each holds only rows of
\* its own symbol, cut at its own limit, and its figure is one it could
\* return running alone on the same table.
C14_ViewersDoNotInterfere ==
    \A v \in DOMAIN vpc :
        /\ vpc[v] \in {"read", "closed", "fetched"} =>
               /\ Ctids(df[v]) \subseteq OfSymbol(store, sel[v].symbol)
               /\ Len(df[v]) = Min(sel[v].n_points,
                                   Cardinality(OfSymbol(store, sel[v].symbol)))
        /\ (vpc[v] = "idle" /\ resp[v] = "ok") =>
               fig[v] \in AloneFigures(store, sel[v].symbol, sel[v].n_points)

\* Two refreshes in flight at once with different symbols and limits, each
\* holding a row of its own symbol.
C14_Witness ==
    /\ vpc["v1"] = "fetched" /\ vpc["v2"] = "fetched"
    /\ sel["v1"].symbol # sel["v2"].symbol
    /\ sel["v1"].n_points # sel["v2"].n_points
    /\ Len(df["v1"]) = 1 /\ Len(df["v2"]) = 1

====
